---------------------------- MODULE Spec2Model ----------------------------
(***************************************************************************)
(* Model of the redirect synchroniser: the row processor (processSheetRow, *)
(* processBulkList), and the CLI commands status, list, diff and publish   *)
(* with the batch upload protocol of publish / uploadBatch.                *)
(*                                                                         *)
(* A JavaScript string is a sequence of tokens.  "/" is the only token the *)
(* code inspects; every other token (a letter, a path segment, a locale    *)
(* code, a scheme-and-host) is opaque and contains no "/" of its own that  *)
(* the code could look at, so concatenation is \o and equality of strings  *)
(* is equality of sequences.                                               *)
(* A loosely typed spreadsheet cell is a one-field record: [undef |-> _],  *)
(* [bool |-> b], [str |-> s] or [num |-> n].                               *)
(***************************************************************************)
EXTENDS Integers, Sequences, FiniteSets, TLC

VARIABLES
    cmd,            \* process.argv[2]: the subcommand of this run
    pc,             \* where the command's async function stands
    inputRows,      \* what fetchRedirectRows() returns in this run
    remote,         \* the items of the remote bulk redirect list
    redirectsList,  \* the rows processSheetRow accepted
    badRows,        \* list: the rows reported as invalid
    bulkList,       \* publish: bulkList, diff: spreadsheetList
    addedRules,     \* diff: addedRules
    removedRules,   \* diff: removedRules
    n,              \* publish: the loop variable n
    i,              \* publish: the batch counter i
    results,        \* publish: results
    truncOk,        \* publish: what emptyBulkList() resolved to
    sheet,          \* status: sheet.success
    uploadResponse, \* uploadBatch: uploadResponse, <<>> outside an uploadBatch
    calls,          \* every call made to a collaborator, in order
    inflight,       \* the indexes in calls of the calls not yet resolved
    log,            \* the lines the command itself writes with console.log
    batchLog,       \* the lines uploadBatch wrote in its latest call
    previous        \* the runs of the program that ended before this one

vars == << cmd, pc, inputRows, remote, redirectsList, badRows, bulkList,
           addedRules, removedRules, n, i, results, truncOk, sheet,
           uploadResponse, calls, inflight, log, batchLog, previous >>

-----------------------------------------------------------------------------
(* Bounds of the model *)

\* the longest sheet built from SampleRows
MaxShort == 2
\* the long sheets hold up to MaxPeriods runs of the long sheet's rows, give
\* or take MaxTail rows
MaxPeriods == 2
MaxTail == 3

-----------------------------------------------------------------------------
(* Cells and strings *)

Undef == [undef |-> TRUE]
Bool(b) == [bool |-> b]
Str(s) == [str |-> s]
Num(k) == [num |-> k]

IsUndef(v) == DOMAIN v = {"undef"}
IsBool(v) == DOMAIN v = {"bool"}
IsStr(v) == DOMAIN v = {"str"}
IsNum(v) == DOMAIN v = {"num"}

Null == [null |-> TRUE]

\* a validator's outcome: a value, or the exception it threw
Ok(v) == [ok |-> TRUE, val |-> v]
Throw == [ok |-> FALSE]

RECURSIVE TrimStart(_)
TrimStart(s) ==
    IF s # <<>> /\ Head(s) = " " THEN TrimStart(Tail(s)) ELSE s

RECURSIVE TrimEnd(_)
TrimEnd(s) ==
    IF s # <<>> /\ s[Len(s)] = " " THEN TrimEnd(SubSeq(s, 1, Len(s) - 1)) ELSE s

Trim(s) == TrimEnd(TrimStart(s))

LowerChar(c) ==
    CASE c = "T" -> "t" [] c = "R" -> "r" [] c = "U" -> "u" [] c = "E" -> "e"
      [] c = "F" -> "f" [] c = "A" -> "a" [] c = "L" -> "l" [] c = "S" -> "s"
      [] OTHER -> c

ToLowerCase(s) == [k \in 1..Len(s) |-> LowerChar(s[k])]

Digits == {"0", "1", "2", "3", "4", "5", "6", "7", "8", "9"}

DigitValue(c) ==
    CASE c = "0" -> 0 [] c = "1" -> 1 [] c = "2" -> 2 [] c = "3" -> 3
      [] c = "4" -> 4 [] c = "5" -> 5 [] c = "6" -> 6 [] c = "7" -> 7
      [] c = "8" -> 8 [] c = "9" -> 9

RECURSIVE ParseDigits(_, _)
ParseDigits(s, acc) ==
    IF s = <<>> THEN acc ELSE ParseDigits(Tail(s), 10 * acc + DigitValue(Head(s)))

IsNumeric(s) == s # <<>> /\ \A k \in 1..Len(s) : s[k] \in Digits

\* a token that is a scheme and host, as in "https://other.example"
Hosts == {"https://other.example", "https://example.test"}

-----------------------------------------------------------------------------
(* Validators *)

RedirectCodes == {301, 302, 307, 308}

validatePath(value) ==
    IF ~IsStr(value) THEN Throw
    ELSE LET t == Trim(value.str)
         IN  IF t = <<>> THEN Throw
             ELSE IF t[1] = "/" \/ t[1] \in Hosts THEN Ok(t)
             ELSE Throw

validateBoolean(value, preferred) ==
    IF IsUndef(value) THEN Ok(preferred)
    ELSE IF IsBool(value) THEN Ok(value.bool)
    ELSE IF IsStr(value)
         THEN LET t == ToLowerCase(Trim(value.str))
              IN  IF t = <<>> THEN Ok(preferred)
                  ELSE IF t = <<"t", "r", "u", "e">> THEN Ok(TRUE)
                  ELSE IF t = <<"f", "a", "l", "s", "e">> THEN Ok(FALSE)
                  ELSE Throw
    ELSE Throw

validateCode(value, preferred) ==
    IF IsUndef(value) THEN Ok(preferred)
    ELSE LET parsed ==
                 IF IsNum(value) THEN Ok(value.num)
                 ELSE IF IsStr(value)
                      THEN IF Trim(value.str) = <<>> THEN Ok(preferred)
                           ELSE IF IsNumeric(Trim(value.str))
                                THEN Ok(ParseDigits(Trim(value.str), 0))
                                ELSE Throw
                 ELSE Throw
         IN  IF parsed.ok /\ parsed.val \in RedirectCodes THEN parsed ELSE Throw

-----------------------------------------------------------------------------
(* Row processor *)

processSheetRowDropsDeletedCheck(input) ==
    LET source == validatePath(input.source)
        destination == validatePath(input.destination)
        code == validateCode(input.code, 302)
        localized == validateBoolean(input.localized, TRUE)
        deleted == validateBoolean(input.deleted, FALSE)
    IN  IF ~(source.ok /\ destination.ok /\ code.ok /\ localized.ok /\ deleted.ok)
        THEN Null
        ELSE IF source.val = destination.val THEN Null
        ELSE [source |-> source.val, destination |-> destination.val,
              code |-> code.val, localized |-> localized.val,
              deleted |-> deleted.val]

processSheetRowNoSelfCheck(input) ==
    LET source == validatePath(input.source)
        destination == validatePath(input.destination)
        code == validateCode(input.code, 302)
        localized == validateBoolean(input.localized, TRUE)
        deleted == validateBoolean(input.deleted, FALSE)
    IN  IF ~(source.ok /\ destination.ok /\ code.ok /\ localized.ok /\ deleted.ok)
        THEN Null
        ELSE IF deleted.val THEN Null
        ELSE [source |-> source.val, destination |-> destination.val,
              code |-> code.val, localized |-> localized.val,
              deleted |-> deleted.val]

processSheetRow(input) ==
    LET source == validatePath(input.source)
        destination == validatePath(input.destination)
        code == validateCode(input.code, 302)
        localized == validateBoolean(input.localized, TRUE)
        deleted == validateBoolean(input.deleted, FALSE)
    IN  IF ~(source.ok /\ destination.ok /\ code.ok /\ localized.ok /\ deleted.ok)
        THEN Null
        ELSE IF source.val = destination.val THEN Null
        ELSE IF deleted.val THEN Null
        ELSE [source |-> source.val, destination |-> destination.val,
              code |-> code.val, localized |-> localized.val,
              deleted |-> deleted.val]

Locales ==
    << "de-de", "en-au", "en-ca", "en-gb", "en-in", "en-us", "es-es", "fr-fr",
       "id-id", "it-it", "ja-jp", "ko-kr", "nl-nl", "pt-br", "ru-ru", "sv-se",
       "th-th", "tr-tr", "vi-vn", "zh-cn", "zh-hans-cn", "zh-tw" >>

DEFAULT_DEST_DOMAIN == << "https://example.test" >>

\* makeFullURL(path): the call without a locale
makeFullURL(path) ==
    IF path # <<>> /\ path[1] = "/" THEN DEFAULT_DEST_DOMAIN \o path ELSE path

\* the locale left out
makeLocaleURLNoLocale(path, locale) == makeFullURL(path)

\* the locale put before the path whatever the path is
makeLocaleURLAlways(path, locale) ==
    DEFAULT_DEST_DOMAIN \o << "/", locale >> \o path

\* makeFullURL(path, locale)
makeLocaleURL(path, locale) ==
    IF path # <<>> /\ path[1] = "/"
    THEN DEFAULT_DEST_DOMAIN \o << "/", locale >> \o path
    ELSE path

\* the body of the loop over the locales, from its k-th element on
RECURSIVE localeItems(_, _, _)
localeItems(row, locales, k) ==
    IF k > Len(locales) THEN <<>>
    ELSE IF locales[k] = "en-us" THEN localeItems(row, locales, k + 1)
    ELSE << [source_url |-> makeLocaleURL(row.source, locales[k]),
             target_url |-> makeLocaleURL(row.destination, locales[k]),
             status_code |-> row.code] >>
         \o localeItems(row, locales, k + 1)

RECURSIVE localeItemsWithDefault(_, _, _)
localeItemsWithDefault(row, locales, k) ==
    IF k > Len(locales) THEN <<>>
    ELSE << [source_url |-> makeLocaleURL(row.source, locales[k]),
             target_url |-> makeLocaleURL(row.destination, locales[k]),
             status_code |-> row.code] >>
         \o localeItemsWithDefault(row, locales, k + 1)

\* the callback of input.flatMap, over the locale list locales
expandRowWithDefault(row, locales) ==
    LET list == << [source_url |-> makeFullURL(row.source),
                    target_url |-> makeFullURL(row.destination),
                    status_code |-> row.code] >>
        full == IF row.localized
                THEN list \o localeItemsWithDefault(row, locales, 1)
                ELSE list
    IN  [k \in 1..Len(full) |-> [redirect |-> full[k]]]

expandRow(row, locales) ==
    LET list == << [source_url |-> makeFullURL(row.source),
                    target_url |-> makeFullURL(row.destination),
                    status_code |-> row.code] >>
        full == IF row.localized
                THEN list \o localeItems(row, locales, 1)
                ELSE list
    IN  [k \in 1..Len(full) |-> [redirect |-> full[k]]]

\* input.flatMap(row => ...) over the rows lo..hi of input
RECURSIVE flatMapRows(_, _, _)
flatMapRows(input, lo, hi) ==
    IF lo > hi THEN <<>>
    ELSE IF lo = hi THEN expandRow(input[lo], Locales)
    ELSE LET mid == (lo + hi) \div 2
         IN  flatMapRows(input, lo, mid) \o flatMapRows(input, mid + 1, hi)

processBulkList(input) == flatMapRows(input, 1, Len(input))

\* outputs.makeBulkList, the later name of processBulkList
makeBulkList(input) == processBulkList(input)

\* inputRows.flatMap((row) => processSheetRow(row) ?? [])
processRows(rows) ==
    SelectSeq([k \in 1..Len(rows) |-> processSheetRow(rows[k])],
              LAMBDA output : output # Null)

-----------------------------------------------------------------------------
(* Rule matcher: processing.ruleInList *)

ruleEquals(a, b) ==
    /\ a.redirect.source_url = b.redirect.source_url
    /\ a.redirect.target_url = b.redirect.target_url
    /\ a.redirect.status_code = b.redirect.status_code

ruleInList(rule, list) == \E k \in 1..Len(list) : ruleEquals(rule, list[k])

\* the filter without its negation
filterIn(list, other) ==
    SelectSeq(list, LAMBDA rule : ruleInList(rule, other))

\* list.filter((rule) => !ruleInList(rule, other))
filterNotIn(list, other) ==
    SelectSeq(list, LAMBDA rule : ~ruleInList(rule, other))

-----------------------------------------------------------------------------
(* The sheets fetchRedirectRows() may return *)

Row(source, destination, code, localized, deleted) ==
    [source |-> source, destination |-> destination, code |-> code,
     localized |-> localized, deleted |-> deleted]

SampleRows ==
    { Row(Str(<<"/", "a">>), Str(<<"/", "b">>), Undef, Undef, Undef),
      Row(Str(<<"/", "c">>), Str(<<"https://other.example", "/", "x">>),
          Str(<<"3", "0", "1">>), Str(<<"f", "a", "l", "s", "e">>), Bool(FALSE)),
      Row(Str(<<"/", "d">>), Str(<<"/", "e">>), Num(308), Bool(TRUE),
          Str(<<"T", "R", "U", "E">>)),
      Row(Str(<<"/", "f">>), Str(<<"/", "g">>), Num(302), Bool(FALSE),
          Str(<<"m", "a", "y", "b", "e">>)),
      Row(Str(<<"/", "a">>), Str(<<" ", "/", "a">>), Num(302), Undef, Undef),
      Row(Str(<<"/", "h">>), Str(<<"/", "b">>), Num(404), Undef, Bool(FALSE)),
      Row(Str(<<"/", "k">>), Str(<<"/", "b">>), Str(<<"3", "0", "7">>),
          Bool(FALSE), Undef) }

RECURSIVE SeqsUpTo(_, _)
SeqsUpTo(S, len) ==
    IF len = 0 THEN { <<>> }
    ELSE LET shorter == SeqsUpTo(S, len - 1)
         IN  shorter \cup { Append(s, x) : s \in shorter, x \in S }

ShortSheets == SeqsUpTo(SampleRows, MaxShort)

\* the long sheet: each run of 59 rows makes 1000 list items, from 4 rows
\* that are rejected, 10 rows that are not localized and 45 localized rows
LongPeriod == 4 + 10 + 45

LongRow(k) ==
    LET j == (k - 1) % LongPeriod
        source == Str(<<"/", ToString(k)>>)
        target == Str(<<"/", "t">>)
    IN  CASE j = 1 -> Row(source, target, Undef, Undef, Bool(TRUE))
          [] j = 3 -> Row(source, target, Str(<<"x">>), Undef, Undef)
          [] j = 4 -> Row(source, source, Undef, Undef, Undef)
          [] j = 5 -> Row(Str(<<>>), target, Undef, Undef, Undef)
          [] j = 0 \/ j \in 50..58 ->
                Row(source, target, Num(301), Bool(FALSE), Undef)
          [] OTHER -> Row(source, target, Undef, Undef, Undef)

\* the lengths within MaxTail rows of a whole number of runs
LongLengths ==
    { m \in 0..(MaxPeriods * LongPeriod + MaxTail) :
        \E p \in 0..MaxPeriods :
            m - p * LongPeriod \in (0 - MaxTail)..MaxTail }

LongSheets == { [k \in 1..m |-> LongRow(k)] : m \in LongLengths }

\* every row over these cells, for the sheets of a single row
RawSources ==
    { Str(<<"/", "a">>), Str(<<" ", "/", "a", " ">>),
      Str(<<"https://other.example", "/", "x">>), Str(<<>>), Str(<<"a">>), Undef }

RawDestinations ==
    { Str(<<"/", "a">>), Str(<<"/", "b">>),
      Str(<<"https://other.example", "/", "x">>),
      Str(<<"https://example.test", "/", "b">>), Str(<<"b">>) }

RawCodes ==
    { Undef, Num(301), Str(<<"3", "0", "8">>), Num(404), Str(<<"a", "b", "c">>),
      Str(<<>>) }

RawLocalized ==
    { Undef, Bool(TRUE), Bool(FALSE), Str(<<"f", "a", "l", "s", "e">>),
      Str(<<"m", "a", "y", "b", "e">>) }

RawDeleted ==
    { Undef, Bool(TRUE), Bool(FALSE), Str(<<"T", "R", "U", "E">>),
      Str(<<"t", "r", "u", "e">>), Str(<<>>), Str(<<"m", "a", "y", "b", "e">>),
      Num(1) }

RawRows ==
    { Row(s, d, c, l, x) : s \in RawSources, d \in RawDestinations,
                           c \in RawCodes, l \in RawLocalized, x \in RawDeleted }

RowSheets == { << r >> : r \in RawRows }

Item(source_url, target_url, status_code) ==
    [redirect |-> [source_url |-> source_url, target_url |-> target_url,
                   status_code |-> status_code]]

StaleItem == Item(<<"https://example.test", "/", "old">>,
                  <<"https://example.test", "/", "gone">>, 301)

LiveItem == Item(<<"https://example.test", "/", "a">>,
                 <<"https://example.test", "/", "b">>, 302)

\* an item as the remote list stores it, with the id it gave it: the item
\* made from the row /c of SampleRows
StoredItem ==
    [redirect |-> [source_url |-> <<"https://example.test", "/", "c">>,
                   target_url |-> <<"https://other.example", "/", "x">>,
                   status_code |-> 301],
     id |-> "r1"]

\* the item made from the row /k of SampleRows, but for its status code
RecodedItem == Item(<<"https://example.test", "/", "k">>,
                    <<"https://example.test", "/", "b">>, 301)

RemoteLists ==
    { <<>>, << StaleItem, LiveItem, StaleItem >>, << StoredItem, RecodedItem >> }

Commands == {"status", "list", "diff", "publish"}

-----------------------------------------------------------------------------
(* Calls to the collaborators *)

Call(op, arg) == [op |-> op, arg |-> arg]

Issue(op, arg) ==
    /\ calls' = Append(calls, Call(op, arg))
    /\ inflight' = inflight \cup {Len(calls) + 1}

\* the awaited call, the last one issued, resolves
Resolve ==
    /\ inflight = {Len(calls)}
    /\ inflight' = {}
    /\ calls' = calls

ResolveAndIssue(op, arg) ==
    /\ inflight = {Len(calls)}
    /\ calls' = Append(calls, Call(op, arg))
    /\ inflight' = {Len(calls) + 1}

\* a run of command c on the sheet rows, the remote list holding items
InitWith(c, rows, items) ==
    /\ cmd = c
    /\ pc = "start"
    /\ inputRows = rows
    /\ remote = items
    /\ previous = <<>>
    /\ redirectsList = <<>>
    /\ badRows = <<>>
    /\ bulkList = <<>>
    /\ addedRules = <<>>
    /\ removedRules = <<>>
    /\ n = 0
    /\ i = 0
    /\ results = <<>>
    /\ truncOk = <<>>
    /\ sheet = <<>>
    /\ uploadResponse = <<>>
    /\ calls = <<>>
    /\ inflight = {}
    /\ log = <<>>
    /\ batchLog = <<>>

Init ==
    \E c \in Commands, rows \in ShortSheets, items \in RemoteLists :
        InitWith(c, rows, items)

InitLong ==
    \E c \in Commands, rows \in LongSheets, items \in RemoteLists :
        InitWith(c, rows, items)

InitRow ==
    \E c \in {"list", "diff"}, rows \in RowSheets, items \in RemoteLists :
        InitWith(c, rows, items)

\* every command but status starts with: await fetchRedirectRows()
Fetch(c) ==
    /\ cmd = c
    /\ pc = "start"
    /\ pc' = "fetching"
    /\ Issue("fetchRedirectRows", <<>>)
    /\ UNCHANGED << cmd, inputRows, remote, redirectsList, badRows, bulkList,
                    addedRules, removedRules, n, i, results, truncOk,
                    sheet, uploadResponse, log, previous,
                    batchLog >>

-----------------------------------------------------------------------------
(* status *)

StatusStart ==
    /\ cmd = "status"
    /\ pc = "start"
    /\ pc' = "checkingSheet"
    /\ Issue("checkSpreadsheetStatus", <<>>)
    /\ UNCHANGED << cmd, inputRows, remote, redirectsList, badRows, bulkList,
                    addedRules, removedRules, n, i, results, truncOk, sheet,
                    uploadResponse, log, previous,
                    batchLog >>

StatusSheetChecked ==
    /\ cmd = "status"
    /\ pc = "checkingSheet"
    /\ \E success \in BOOLEAN : sheet' = << success >>
    /\ pc' = "checkingList"
    /\ ResolveAndIssue("getBulkListStatus", <<>>)
    /\ UNCHANGED << cmd, inputRows, remote, redirectsList, badRows, bulkList,
                    addedRules, removedRules, n, i, results, truncOk,
                    uploadResponse, log, previous,
                    batchLog >>

StatusListChecked ==
    /\ cmd = "status"
    /\ pc = "checkingList"
    /\ \E cflist \in BOOLEAN :
          log' = log \o << << "Success?", ToString(sheet[1] /\ cflist) >>,
                           << "## Errors:" >>, << "## Messages:" >> >>
    /\ pc' = "Done"
    /\ Resolve
    /\ UNCHANGED << cmd, inputRows, remote, redirectsList, badRows, bulkList,
                    addedRules, removedRules, n, i, results, truncOk, sheet,
                    uploadResponse, previous,
                    batchLog >>

-----------------------------------------------------------------------------
(* list *)

\* the callback of inputRows.flatMap in list throws on this row: the row is
\* rejected and validateBoolean(row.deleted, false) throws outside any try
listThrows(row) ==
    /\ processSheetRow(row) = Null
    /\ ~validateBoolean(row.deleted, FALSE).ok

\* the callback of inputRows.flatMap in list pushes this row to badRows
listReports(row) ==
    /\ processSheetRow(row) = Null
    /\ ~validateBoolean(row.deleted, FALSE).val

\* inputRows.flatMap in list: the rows are handled in order up to the first
\* one the callback throws on
listRows(rows) ==
    LET throwing == {k \in 1..Len(rows) : listThrows(rows[k])}
        handled == IF throwing = {} THEN rows
                   ELSE SubSeq(rows, 1,
                               (CHOOSE k \in throwing :
                                   \A j \in throwing : k <= j) - 1)
    IN  [redirectsList |-> processRows(handled),
         badRows |-> SelectSeq(handled, listReports),
         thrown |-> throwing # {}]

ListFetched ==
    /\ cmd = "list"
    /\ pc = "fetching"
    /\ Resolve
    /\ LET out == listRows(inputRows)
       IN  /\ redirectsList' = out.redirectsList
           /\ badRows' = out.badRows
           /\ IF out.thrown
              THEN /\ pc' = "Crashed"
                   /\ log' = log
              ELSE /\ pc' = "Done"
                   /\ log' = log \o
                        << << "## Messages:", ToString(Len(out.redirectsList)),
                              "valid rules", ToString(Len(out.badRows)),
                              "rows with errors" >>,
                           << "## Valid Rules:", ToString(Len(out.redirectsList)) >>,
                           << "## Invalid Rules:", ToString(Len(out.badRows)) >> >>
    /\ UNCHANGED << cmd, inputRows, remote, bulkList, addedRules, removedRules,
                    n, i, results, truncOk, sheet, uploadResponse, previous,
                    batchLog >>

-----------------------------------------------------------------------------
(* diff *)

DiffFetched ==
    /\ cmd = "diff"
    /\ pc = "fetching"
    /\ redirectsList' = processRows(inputRows)
    /\ bulkList' = makeBulkList(redirectsList')
    /\ pc' = "gettingList"
    /\ ResolveAndIssue("getBulkListContents", <<>>)
    /\ UNCHANGED << cmd, inputRows, remote, badRows, addedRules, removedRules,
                    n, i, results, truncOk, sheet, uploadResponse, log, previous,
                    batchLog >>

\* diff with its two lists mixed up
DiffComparedSwapped ==
    /\ cmd = "diff"
    /\ pc = "gettingList"
    /\ Resolve
    /\ LET cloudflareList == remote
       IN  /\ removedRules' = filterNotIn(bulkList, cloudflareList)
           /\ addedRules' = filterNotIn(cloudflareList, bulkList)
    /\ log' = log \o << << "## Messages:", ToString(Len(addedRules')),
                           "rules to add", ToString(Len(removedRules')),
                           "rules to remove" >> >>
    /\ pc' = "Done"
    /\ UNCHANGED << cmd, inputRows, remote, redirectsList, badRows, bulkList,
                    n, i, results, truncOk, sheet, uploadResponse, previous,
                    batchLog >>

\* diff that makes the remote list the sheet's list
DiffComparedPublishes ==
    /\ cmd = "diff"
    /\ pc = "gettingList"
    /\ Resolve
    /\ LET cloudflareList == remote
       IN  /\ removedRules' = filterNotIn(cloudflareList, bulkList)
           /\ addedRules' = filterNotIn(bulkList, cloudflareList)
    /\ log' = log \o << << "## Messages:", ToString(Len(addedRules')),
                           "rules to add", ToString(Len(removedRules')),
                           "rules to remove" >> >>
    /\ pc' = "Done"
    /\ remote' = bulkList
    /\ UNCHANGED << cmd, inputRows, redirectsList, badRows, bulkList,
                    n, i, results, truncOk, sheet, uploadResponse, previous,
                    batchLog >>

DiffCompared ==
    /\ cmd = "diff"
    /\ pc = "gettingList"
    /\ Resolve
    /\ LET cloudflareList == remote
       IN  /\ removedRules' = filterNotIn(cloudflareList, bulkList)
           /\ addedRules' = filterNotIn(bulkList, cloudflareList)
    /\ log' = log \o << << "## Messages:", ToString(Len(addedRules')),
                           "rules to add", ToString(Len(removedRules')),
                           "rules to remove" >> >>
    /\ pc' = "Done"
    /\ UNCHANGED << cmd, inputRows, remote, redirectsList, badRows, bulkList,
                    n, i, results, truncOk, sheet, uploadResponse, previous,
                    batchLog >>

-----------------------------------------------------------------------------
(* publish and uploadBatch *)

\* const batch = 1000
batch == 1000

Min(a, b) == IF a < b THEN a ELSE b

\* slice with its end taken as the last index, not the one after it
sliceInclusive(list, from, to) == SubSeq(list, from + 1, Min(to + 1, Len(list)))

\* slice that starts one item late
sliceFromNext(list, from, to) == SubSeq(list, from + 2, Min(to, Len(list)))

\* list.slice(from, to), 0 <= from
slice(list, from, to) == SubSeq(list, from + 1, Min(to, Len(list)))

\* Math.ceil(a / b), b > 0
ceilDiv(a, b) == (a + b - 1) \div b

\* uploadBulkList's answer: success and bulkOperationsId, each present or not
UploadResponses ==
    { [success |-> s, bulkOperationsId |-> b] :
        s \in { <<>>, << TRUE >>, << FALSE >> }, b \in { <<>>, << "op" >> } }

PublishFetched ==
    /\ cmd = "publish"
    /\ pc = "fetching"
    /\ redirectsList' = processRows(inputRows)
    /\ bulkList' = makeBulkList(redirectsList')
    /\ log' = Append(log, << "Truncating the existing list..." >>)
    /\ pc' = "Truncating"
    /\ ResolveAndIssue("emptyBulkList", <<>>)
    /\ UNCHANGED << cmd, inputRows, remote, badRows, addedRules, removedRules,
                    n, i, results, truncOk, sheet, uploadResponse, previous,
                    batchLog >>

\* publish that does not await emptyBulkList()
TruncatedNotAwaited ==
    /\ cmd = "publish"
    /\ pc = "Truncating"
    /\ inflight = {Len(calls)}
    /\ UNCHANGED << calls, inflight >>
    /\ UNCHANGED << truncOk, remote >>
    /\ log' = Append(log, << "Uploading", ToString(Len(bulkList)), "redirects in",
                             ToString(ceilDiv(Len(bulkList), batch)), "batches" >>)
    /\ n' = 0
    /\ i' = 0
    /\ results' = <<>>
    /\ pc' = "Uploading"
    /\ UNCHANGED << cmd, inputRows, redirectsList, badRows, bulkList, addedRules,
                    removedRules, sheet, uploadResponse, previous,
                    batchLog >>

\* await emptyBulkList() resolves; its value is dropped
Truncated ==
    /\ cmd = "publish"
    /\ pc = "Truncating"
    /\ Resolve
    /\ \E success \in BOOLEAN :
          /\ truncOk' = << success >>
          /\ remote' = IF success THEN <<>> ELSE remote
    /\ log' = Append(log, << "Uploading", ToString(Len(bulkList)), "redirects in",
                             ToString(ceilDiv(Len(bulkList), batch)), "batches" >>)
    /\ n' = 0
    /\ i' = 0
    /\ results' = <<>>
    /\ pc' = "Uploading"
    /\ UNCHANGED << cmd, inputRows, redirectsList, badRows, bulkList, addedRules,
                    removedRules, sheet, uploadResponse, previous,
                    batchLog >>

\* the loop's test holds: uploadBatch(i, bulkList.slice(n, n + batch)) is called
UploadIssued ==
    /\ cmd = "publish"
    /\ pc = "Uploading"
    /\ n < Len(bulkList)
    /\ i' = i + 1
    /\ log' = Append(log, << "### Batch", ToString(i') >>)
    /\ Issue("uploadBulkList", slice(bulkList, n, n + batch))
    /\ batchLog' = <<>>
    /\ pc' = "AwaitingUpload"
    /\ UNCHANGED << cmd, inputRows, remote, redirectsList, badRows, bulkList,
                    addedRules, removedRules, n, results, truncOk, sheet,
                    uploadResponse, previous >>

\* uploadBatch's lines once uploadBulkList has answered
uploadLines(response, k) ==
    << << "Success?", IF response.success = <<>> THEN "undefined"
                      ELSE ToString(response.success[1]) >>,
       IF response.bulkOperationsId # <<>>
       THEN << "Awaiting confirmation on bulk operation.",
               response.bulkOperationsId[1] >>
       ELSE << "No bulk operation returned for batch", ToString(k) >> >>

\* uploadBatch's line once getBulkOpsStatus has answered
confirmationLine(success, k) ==
    IF success THEN << "Batch", ToString(k), "accepted." >>
    ELSE << "Bulk operation failed for batch", ToString(k) >>

\* the loop left at the first failed batch
BatchDoneStopsOnFailure(success) ==
    /\ log' = Append(log, << "Batch", ToString(i),
                             IF success THEN "complete" ELSE "failed" >>)
    /\ results' = Append(results, success)
    /\ n' = IF success THEN n + batch ELSE Len(bulkList)
    /\ pc' = "Uploading"

\* uploadBatch returned success: the rest of the loop body
BatchDone(success) ==
    /\ log' = Append(log, << "Batch", ToString(i),
                             IF success THEN "complete" ELSE "failed" >>)
    /\ results' = Append(results, success)
    /\ n' = n + batch
    /\ pc' = "Uploading"

\* uploadBatch that starts the status poll and does not await it
UploadReturnedNoAwait ==
    /\ cmd = "publish"
    /\ pc = "AwaitingUpload"
    /\ \E response \in UploadResponses :
          LET success == response.success = << TRUE >>
          IN  /\ uploadResponse' = <<>>
              /\ batchLog' = uploadLines(response, i)
              /\ IF response.bulkOperationsId # <<>>
                 THEN ResolveAndIssue("getBulkOpsStatus", response.bulkOperationsId)
                 ELSE Resolve
              /\ remote' = IF success
                           THEN remote \o calls[Len(calls)].arg
                           ELSE remote
              /\ BatchDone(success)
    /\ UNCHANGED << cmd, inputRows, redirectsList, badRows, bulkList, addedRules,
                    removedRules, i, truncOk, sheet, previous >>

\* await uploadBulkList(batchList) resolves
UploadReturned ==
    /\ cmd = "publish"
    /\ pc = "AwaitingUpload"
    /\ \E response \in UploadResponses :
          IF response.bulkOperationsId # <<>>
          THEN /\ uploadResponse' = response
               /\ batchLog' = uploadLines(response, i)
               /\ ResolveAndIssue("getBulkOpsStatus", response.bulkOperationsId)
               /\ pc' = "AwaitingConfirmation"
               /\ UNCHANGED << remote, n, results, log >>
          ELSE LET success == response.success = << TRUE >>
               IN  /\ uploadResponse' = <<>>
                   /\ batchLog' = uploadLines(response, i)
                   /\ Resolve
                   /\ remote' = IF success
                                THEN remote \o calls[Len(calls)].arg
                                ELSE remote
                   /\ BatchDone(success)
    /\ UNCHANGED << cmd, inputRows, redirectsList, badRows, bulkList, addedRules,
                    removedRules, i, truncOk, sheet, previous >>

\* getBulkOpsStatus finds the bulk operation still running, and asks again
BulkOpPending ==
    /\ cmd = "publish"
    /\ pc = "AwaitingConfirmation"
    /\ inflight = {Len(calls)}
    /\ UNCHANGED vars

\* uploadBatch that returns the upload answer's flag after the poll
BulkOpResolvedUsesFlag ==
    /\ cmd = "publish"
    /\ pc = "AwaitingConfirmation"
    /\ Resolve
    /\ uploadResponse' = <<>>
    /\ \E success \in BOOLEAN :
          /\ remote' = IF success
                       THEN remote \o calls[Len(calls) - 1].arg
                       ELSE remote
          /\ batchLog' = Append(batchLog, confirmationLine(success, i))
          /\ BatchDone(uploadResponse.success = << TRUE >>)
    /\ UNCHANGED << cmd, inputRows, redirectsList, badRows, bulkList, addedRules,
                    removedRules, i, truncOk, sheet, previous >>

\* await getBulkOpsStatus(id) resolves: the bulk operation ended
BulkOpResolved ==
    /\ cmd = "publish"
    /\ pc = "AwaitingConfirmation"
    /\ Resolve
    /\ uploadResponse' = <<>>
    /\ \E success \in BOOLEAN :
          /\ remote' = IF success
                       THEN remote \o calls[Len(calls) - 1].arg
                       ELSE remote
          /\ batchLog' = Append(batchLog, confirmationLine(success, i))
          /\ BatchDone(success)
    /\ UNCHANGED << cmd, inputRows, redirectsList, badRows, bulkList, addedRules,
                    removedRules, i, truncOk, sheet, previous >>

\* publish that sets the description only when it uploaded a batch
DescriptionIssuedIfUploaded ==
    /\ cmd = "publish"
    /\ pc = "Uploading"
    /\ ~(n < Len(bulkList))
    /\ IF results = <<>>
       THEN /\ pc' = "Done"
            /\ UNCHANGED << calls, inflight >>
       ELSE /\ Issue("setListDescription", << "Updated by Directomatic" >>)
            /\ pc' = "Describing"
    /\ UNCHANGED << cmd, inputRows, remote, redirectsList, badRows, bulkList,
                    addedRules, removedRules, n, i, results, truncOk, sheet,
                    uploadResponse, log, previous, batchLog >>

\* the loop's test fails: setListDescription is called
DescriptionIssued ==
    /\ cmd = "publish"
    /\ pc = "Uploading"
    /\ ~(n < Len(bulkList))
    /\ Issue("setListDescription", << "Updated by Directomatic" >>)
    /\ pc' = "Describing"
    /\ UNCHANGED << cmd, inputRows, remote, redirectsList, badRows, bulkList,
                    addedRules, removedRules, n, i, results, truncOk, sheet,
                    uploadResponse, log, previous,
                    batchLog >>

\* publish that gives up when setListDescription fails
DescriptionReturnedFatal ==
    /\ cmd = "publish"
    /\ pc = "Describing"
    /\ Resolve
    /\ \E success \in BOOLEAN :
          /\ log' = IF success
                    THEN Append(log, << "Updated datestamp in list description." >>)
                    ELSE log
          /\ pc' = IF success THEN "Done" ELSE "Crashed"
    /\ UNCHANGED << cmd, inputRows, remote, redirectsList, badRows, bulkList,
                    addedRules, removedRules, n, i, results, truncOk, sheet,
                    uploadResponse, previous,
                    batchLog >>

DescriptionReturned ==
    /\ cmd = "publish"
    /\ pc = "Describing"
    /\ Resolve
    /\ \E success \in BOOLEAN :
          log' = IF success
                 THEN Append(log, << "Updated datestamp in list description." >>)
                 ELSE log
    /\ pc' = "Done"
    /\ UNCHANGED << cmd, inputRows, remote, redirectsList, badRows, bulkList,
                    addedRules, removedRules, n, i, results, truncOk, sheet,
                    uploadResponse, previous,
                    batchLog >>

-----------------------------------------------------------------------------
(* The program is run again *)

\* after a publish run has ended, the program is started once more, with
\* command c, on the same sheet and on the remote list as publish left it
RunAgain(c) ==
    /\ previous = <<>>
    /\ cmd = "publish"
    /\ pc = "Done"
    /\ previous' = << [cmd |-> cmd, truncOk |-> truncOk, results |-> results,
                       log |-> log] >>
    /\ cmd' = c
    /\ pc' = "start"
    /\ redirectsList' = <<>>
    /\ badRows' = <<>>
    /\ bulkList' = <<>>
    /\ addedRules' = <<>>
    /\ removedRules' = <<>>
    /\ n' = 0
    /\ i' = 0
    /\ results' = <<>>
    /\ truncOk' = <<>>
    /\ sheet' = <<>>
    /\ uploadResponse' = <<>>
    /\ calls' = <<>>
    /\ inflight' = {}
    /\ log' = <<>>
    /\ batchLog' = <<>>
    /\ UNCHANGED << inputRows, remote >>

-----------------------------------------------------------------------------
(* Specifications *)

\* the steps of publish but the end of a bulk operation
PublishSteps ==
    \/ Fetch("publish")
    \/ PublishFetched
    \/ Truncated
    \/ UploadIssued
    \/ UploadReturned
    \/ BulkOpPending
    \/ DescriptionIssued
    \/ DescriptionReturned

\* the steps of the program and of the collaborators, but for the end of a
\* bulk operation
Steps ==
    \/ StatusStart
    \/ StatusSheetChecked
    \/ StatusListChecked
    \/ \E c \in {"list", "diff"} : Fetch(c)
    \/ ListFetched
    \/ DiffFetched
    \/ DiffCompared
    \/ PublishSteps

Next == Steps \/ BulkOpResolved

\* the runs over the short sheets
Spec == Init /\ [][Next]_vars

\* a run over a short sheet, and a second run after a publish
NextTwice == Next \/ \E c \in Commands : RunAgain(c)

SpecTwice == Init /\ [][NextTwice]_vars

\* the runs over the long sheets
SpecLong == InitLong /\ [][Next]_vars

NextRow ==
    \/ \E c \in {"list", "diff"} : Fetch(c)
    \/ ListFetched
    \/ DiffFetched
    \/ DiffCompared

\* list and diff over the sheets of one row
SpecRow == InitRow /\ [][NextRow]_vars

\* a run in which every call publish awaits is answered, but for the status of
\* a bulk operation, which may stay pending
FairSpec == Init /\ [][Next]_vars /\ WF_vars(PublishSteps)

-----------------------------------------------------------------------------
(* Properties *)

\* the uploadBulkList calls of this run, in the order they were made
uploads == SelectSeq(calls, LAMBDA c : c.op = "uploadBulkList")

RECURSIVE concatArgs(_)
concatArgs(cs) ==
    IF cs = <<>> THEN <<>> ELSE Head(cs).arg \o concatArgs(Tail(cs))

InSeq(x, seq) == \E k \in 1..Len(seq) : seq[k] = x

LoopEnded == pc \in {"Describing", "Done"}

\* all five validators accept the row's cells
AllValid(row) ==
    /\ validatePath(row.source).ok
    /\ validatePath(row.destination).ok
    /\ validateCode(row.code, 302).ok
    /\ validateBoolean(row.localized, TRUE).ok
    /\ validateBoolean(row.deleted, FALSE).ok

Processed == pc \notin {"start", "fetching"}

(* C1: in a publish run whose emptyBulkList fails, no uploadBulkList call is
   ever issued and the run does not end as a completed run. *)
C1_TruncateFailureStopsRun ==
    (cmd = "publish" /\ truncOk = << FALSE >>) => (uploads = <<>> /\ pc # "Done")

(* C2: when truncate succeeded, the batches uploaded so far are, concatenated
   in upload order, the first items of the desired list in its order; every
   batch holds at most 1000 items and every batch but the last exactly 1000;
   and once the loop has ended there were exactly ceil(N/1000) uploads whose
   concatenation is the whole desired list (so no batch was sent twice). *)
C2_BatchesPartitionList ==
    (cmd = "publish" /\ truncOk = << TRUE >>) =>
        /\ concatArgs(uploads) =
              SubSeq(bulkList, 1, Min(1000 * Len(uploads), Len(bulkList)))
        /\ \A k \in 1..Len(uploads) :
              /\ Len(uploads[k].arg) >= 1
              /\ Len(uploads[k].arg) <= 1000
              /\ k < Len(uploads) => Len(uploads[k].arg) = 1000
        /\ LoopEnded =>
              /\ Len(uploads) = (Len(bulkList) + 999) \div 1000
              /\ concatArgs(uploads) = bulkList

C2_ThreeBatchesLastShort ==
    /\ cmd = "publish"
    /\ pc = "Done"
    /\ truncOk = << TRUE >>
    /\ Len(bulkList) = 2023
    /\ Len(uploads) = 3
    /\ Len(uploads[3].arg) = 23

(* C3: a failed batch never stops the publish run: results holds one entry
   per batch that has finished, in batch order (the loop is at item
   1000 * Len(results)), the next upload can be issued whenever items remain,
   whatever the earlier results were, and once the loop has ended the number
   of results equals the number of batches, ceil(N/1000). *)
C3_FailedBatchDoesNotStop ==
    (cmd = "publish" /\ truncOk # <<>>) =>
        /\ Len(results) <= Len(uploads)
        /\ Len(uploads) <= Len(results) + 1
        /\ n = 1000 * Len(results)
        /\ i = Len(uploads)
        /\ pc = "Uploading" => Len(results) = Len(uploads)
        /\ (pc = "Uploading" /\ 1000 * Len(results) < Len(bulkList)) =>
              ENABLED UploadIssued
        /\ LoopEnded =>
              /\ Len(results) = (Len(bulkList) + 999) \div 1000
              /\ Len(uploads) = Len(results)

C3_RunPastFailedBatch ==
    /\ cmd = "publish"
    /\ pc = "Done"
    /\ Len(results) = 3
    /\ results[1] = FALSE
    /\ results[3] = TRUE

(* C4: the batches of a publish run are handled one after the other: at most
   one call is in flight, and it is the last one issued, so every call issued
   before it (the upload of an earlier batch, its status poll) has resolved;
   while an upload is awaited every earlier batch has its result. *)
C4_OneCallInFlight ==
    /\ Cardinality(inflight) <= 1
    /\ \A j \in inflight : j = Len(calls)
    /\ pc = "AwaitingUpload" =>
          /\ inflight = {Len(calls)}
          /\ calls[Len(calls)].op = "uploadBulkList"
          /\ Len(results) = Len(uploads) - 1
    /\ pc = "AwaitingConfirmation" =>
          /\ inflight = {Len(calls)}
          /\ calls[Len(calls)].op = "getBulkOpsStatus"
          /\ calls[Len(calls) - 1].op = "uploadBulkList"

C4_SecondUploadAfterPoll ==
    /\ cmd = "publish"
    /\ pc = "AwaitingUpload"
    /\ i = 2
    /\ calls[Len(calls) - 1].op = "getBulkOpsStatus"
    /\ inflight = {Len(calls)}

(* C5: a publish run always ends, also when a bulk operation never reaches a
   terminal state: polling stops and the run reaches Done. *)
C5_PublishTerminates == (cmd = "publish") ~> (pc = "Done")

\* how a publish run ended: truncate failed, every batch succeeded, or some
\* batches succeeded and some failed
Outcome(truncated, batches) ==
    IF truncated # << TRUE >> THEN "aborted"
    ELSE IF \A k \in 1..Len(batches) : batches[k] THEN "full"
    ELSE IF \E k \in 1..Len(batches) : batches[k] THEN "partial"
    ELSE "failed"

(* C6: two publish runs of some batches that ended differently (fully
   succeeded, partially succeeded, aborted before upload) never print the
   same report. *)
C6_OutcomesDistinguished ==
    (/\ previous # <<>>
     /\ cmd = "publish"
     /\ pc = "Done"
     /\ results # <<>>
     /\ Outcome(previous[1].truncOk, previous[1].results) \in {"aborted", "full", "partial"}
     /\ Outcome(truncOk, results) \in {"aborted", "full", "partial"}
     /\ Outcome(previous[1].truncOk, previous[1].results) # Outcome(truncOk, results))
    => previous[1].log # log

\* the deleted cell is text that is no boolean
GarbageDeleted(row) ==
    /\ IsStr(row.deleted)
    /\ Trim(row.deleted.str) # <<>>
    /\ ~validateBoolean(row.deleted, FALSE).ok

(* C7: list, once it has the rows, ends with its report, and every row whose
   deleted cell is garbage was rejected by processSheetRow and is among the
   invalid rows reported. *)
C7_GarbageDeletedCountedInvalid ==
    (cmd = "list" /\ Processed) =>
        /\ pc = "Done"
        /\ \A k \in 1..Len(inputRows) :
              GarbageDeleted(inputRows[k]) =>
                  /\ processSheetRow(inputRows[k]) = Null
                  /\ InSeq(inputRows[k], badRows)

\* deleted is true and the four other cells are valid
DeletedOtherwiseValid(row) ==
    /\ AllValid(row)
    /\ validateBoolean(row.deleted, FALSE).val

(* C8: a row marked deleted (as a boolean or as text, in any letter case)
   whose other cells are valid is rejected by processSheetRow, gives no
   record in the list of valid redirects, which holds no deleted record at
   all, and is not among the invalid rows. *)
C8_DeletedRowsNotReported ==
    Processed =>
        /\ \A j \in 1..Len(redirectsList) : ~redirectsList[j].deleted
        /\ \A k \in 1..Len(inputRows) :
              DeletedOtherwiseValid(inputRows[k]) =>
                  /\ processSheetRow(inputRows[k]) = Null
                  /\ ~InSeq(inputRows[k], badRows)
                  /\ ~\E j \in 1..Len(redirectsList) :
                        /\ redirectsList[j].source = validatePath(inputRows[k].source).val
                        /\ redirectsList[j].destination =
                              validatePath(inputRows[k].destination).val

C8_DeletedTextRowListed ==
    /\ cmd = "list"
    /\ pc = "Done"
    /\ Len(inputRows) = 1
    /\ DeletedOtherwiseValid(inputRows[1])
    /\ inputRows[1].deleted = Str(<<"T", "R", "U", "E">>)
    /\ redirectsList = <<>>
    /\ badRows = <<>>

\* what the claim says processRow accepts
Acceptable(row) ==
    /\ AllValid(row)
    /\ validatePath(row.source).val # validatePath(row.destination).val
    /\ ~validateBoolean(row.deleted, FALSE).val

(* C9: processSheetRow accepts a row exactly when all five validators
   succeed, the validated source differs from the validated destination and
   deleted is false; otherwise it returns null, without throwing; so the
   valid redirects of a diff run are one complete record per acceptable row,
   each with source # destination, code in {301, 302, 307, 308}, deleted
   false. *)
C9_AcceptedIffValid ==
    (cmd = "diff" /\ Processed) =>
        /\ pc # "Crashed"
        /\ \A k \in 1..Len(inputRows) :
              /\ Acceptable(inputRows[k]) <=> processSheetRow(inputRows[k]) # Null
              /\ ~Acceptable(inputRows[k]) => processSheetRow(inputRows[k]) = Null
        /\ Len(redirectsList) =
              Cardinality({k \in 1..Len(inputRows) : Acceptable(inputRows[k])})
        /\ \A j \in 1..Len(redirectsList) :
              /\ DOMAIN redirectsList[j] =
                    {"source", "destination", "code", "localized", "deleted"}
              /\ redirectsList[j].source # redirectsList[j].destination
              /\ redirectsList[j].code \in {301, 302, 307, 308}
              /\ redirectsList[j].localized \in BOOLEAN
              /\ redirectsList[j].deleted = FALSE

C9_SelfRedirectRejected ==
    /\ cmd = "diff"
    /\ pc = "Done"
    /\ Len(inputRows) = 1
    /\ AllValid(inputRows[1])
    /\ inputRows[1].source # inputRows[1].destination
    /\ validatePath(inputRows[1].source).val = validatePath(inputRows[1].destination).val
    /\ ~validateBoolean(inputRows[1].deleted, FALSE).val
    /\ redirectsList = <<>>

\* the locales of the list other than en-us, in the list's order
NonDefaultLocales == SelectSeq(Locales, LAMBDA l : l # "en-us")

(* C10: the list items made from one accepted record are the base item and,
   when the record is localized, one item per locale other than en-us in the
   order of the locale list (21 of them), each with the record's status code
   and none with an en-us prefix; a record that is not localized gives the
   base item alone.  With the locales de-de, en-us, es-es the items are the
   base item, the de-de item and the es-es item. *)
C10_ExpansionOrder ==
    (cmd = "diff" /\ Processed /\ Len(redirectsList) = 1) =>
        LET r == redirectsList[1]
        IN  /\ Len(NonDefaultLocales) = 21
            /\ Len(bulkList) = IF r.localized THEN 1 + Len(NonDefaultLocales) ELSE 1
            /\ bulkList[1].redirect.source_url = makeFullURL(r.source)
            /\ bulkList[1].redirect.target_url = makeFullURL(r.destination)
            /\ \A j \in 1..(Len(bulkList) - 1) :
                  /\ bulkList[j + 1].redirect.source_url =
                        makeLocaleURL(r.source, NonDefaultLocales[j])
                  /\ bulkList[j + 1].redirect.target_url =
                        makeLocaleURL(r.destination, NonDefaultLocales[j])
            /\ \A j \in 1..Len(bulkList) :
                  /\ bulkList[j].redirect.status_code = r.code
                  /\ ~InSeq("en-us", bulkList[j].redirect.source_url)
                  /\ ~InSeq("en-us", bulkList[j].redirect.target_url)
            /\ expandRow(r, << "de-de", "en-us", "es-es" >>) =
                  << bulkList[1] >> \o
                  (IF r.localized
                   THEN << Item(makeLocaleURL(r.source, "de-de"),
                                makeLocaleURL(r.destination, "de-de"), r.code),
                           Item(makeLocaleURL(r.source, "es-es"),
                                makeLocaleURL(r.destination, "es-es"), r.code) >>
                   ELSE <<>>)

C10_LocalizedRowExpanded ==
    /\ cmd = "diff"
    /\ pc = "Done"
    /\ Len(redirectsList) = 1
    /\ redirectsList[1].localized
    /\ redirectsList[1].source = << "/", "a" >>
    /\ Len(bulkList) = 22
    /\ bulkList[2].redirect.source_url = << "https://example.test", "/", "de-de", "/", "a" >>
    /\ bulkList[7].redirect.source_url = << "https://example.test", "/", "es-es", "/", "a" >>

\* the path is a full URL: it starts with a scheme and host
IsAbsolute(path) == path # <<>> /\ path[1] \in Hosts

\* the path is host-relative: it starts with "/"
IsRelative(path) == path # <<>> /\ path[1] = "/"

\* what the claim says the j-th list item of a record makes of a path
Resolved(path, j) ==
    IF IsAbsolute(path) THEN path
    ELSE IF j = 1 THEN << "https://example.test" >> \o path
    ELSE << "https://example.test", "/", NonDefaultLocales[j - 1] >> \o path

(* C11: in every list item made from an accepted record, a source or
   destination that is a full URL is emitted unchanged, in the base item and
   in every locale item, also when the record is localized; a field is
   changed only when it starts with "/", and then it gets the default domain
   and, in the locale items, "/" and the locale before the path. *)
C11_AbsoluteURLsUnchanged ==
    (cmd = "diff" /\ Processed /\ Len(redirectsList) = 1) =>
        LET r == redirectsList[1]
        IN  /\ IsAbsolute(r.source) # IsRelative(r.source)
            /\ IsAbsolute(r.destination) # IsRelative(r.destination)
            /\ \A j \in 1..Len(bulkList) :
                  /\ bulkList[j].redirect.source_url = Resolved(r.source, j)
                  /\ bulkList[j].redirect.target_url = Resolved(r.destination, j)
                  /\ bulkList[j].redirect.source_url # r.source
                        => IsRelative(r.source)
                  /\ bulkList[j].redirect.target_url # r.destination
                        => IsRelative(r.destination)

C11_LocalizedAbsoluteDestination ==
    /\ cmd = "diff"
    /\ pc = "Done"
    /\ Len(redirectsList) = 1
    /\ redirectsList[1].localized
    /\ redirectsList[1].source = << "/", "a" >>
    /\ redirectsList[1].destination = << "https://other.example", "/", "x" >>
    /\ Len(bulkList) = 22
    /\ bulkList[22].redirect.source_url =
          << "https://example.test", "/", "zh-tw", "/", "a" >>
    /\ bulkList[22].redirect.target_url = << "https://other.example", "/", "x" >>

\* the items of the two lists diff compares
Entries ==
    {remote[k] : k \in 1..Len(remote)} \cup {bulkList[k] : k \in 1..Len(bulkList)}

\* the three fields of an item that make the rule
Triple(e) ==
    << e.redirect.source_url, e.redirect.target_url, e.redirect.status_code >>

(* C12: over the items diff has compared, ruleEquals is reflexive, symmetric
   and transitive and holds exactly when the two items have the same
   source_url, target_url and status_code, whatever else the items carry; and
   when the remote list is the list made from the sheet, repeated items
   included, diff finds nothing to add and nothing to remove. *)
C12_RuleEqualsEquivalence ==
    (cmd = "diff" /\ pc = "Done") =>
        /\ \A a \in Entries : ruleEquals(a, a)
        /\ \A a, b \in Entries : ruleEquals(a, b) => ruleEquals(b, a)
        /\ \A a, b, c \in Entries :
              (ruleEquals(a, b) /\ ruleEquals(b, c)) => ruleEquals(a, c)
        /\ \A a, b \in Entries : ruleEquals(a, b) <=> (Triple(a) = Triple(b))
        /\ remote = bulkList => (addedRules = <<>> /\ removedRules = <<>>)

C12_DiffOfListWithItself ==
    /\ cmd = "diff"
    /\ pc = "Done"
    /\ remote = bulkList
    /\ Len(bulkList) = 44
    /\ bulkList[1] = bulkList[23]
    /\ addedRules = <<>>
    /\ removedRules = <<>>

\* the places of list whose item is ruleEquals to no item of other
PlacesNotIn(list, other) ==
    {k \in 1..Len(list) : \A j \in 1..Len(other) : ~ruleEquals(list[k], other[j])}

\* out holds the items of list at places, in the order of list
KeepsPlaces(list, places, out) ==
    /\ Len(out) = Cardinality(places)
    /\ \A k \in places : out[Cardinality({x \in places : x <= k})] = list[k]

(* C13: diff's removed rules are the items of the remote list that are
   ruleEquals to no item of the sheet's list, and its added rules the items
   of the sheet's list that are ruleEquals to no item of the remote list,
   each in the order of the list they come from; no added rule is in the
   remote list and no removed rule in the sheet's list; and for a sheet's
   list [A, B] and a remote list [B, C] the added rules are [A] and the
   removed rules [C]. *)
C13_DiffIsFilteredDifference ==
    (cmd = "diff" /\ pc = "Done") =>
        /\ KeepsPlaces(remote, PlacesNotIn(remote, bulkList), removedRules)
        /\ KeepsPlaces(bulkList, PlacesNotIn(bulkList, remote), addedRules)
        /\ \A a \in 1..Len(addedRules), c \in 1..Len(remote) :
              ~ruleEquals(addedRules[a], remote[c])
        /\ \A d \in 1..Len(removedRules), b \in 1..Len(bulkList) :
              ~ruleEquals(removedRules[d], bulkList[b])
        /\ (/\ Len(bulkList) = 2
            /\ Len(remote) = 2
            /\ ruleEquals(bulkList[2], remote[1])
            /\ \A x \in {bulkList[2], remote[2]} : ~ruleEquals(bulkList[1], x)
            /\ ~ruleEquals(remote[2], bulkList[2]))
           => (addedRules = << bulkList[1] >> /\ removedRules = << remote[2] >>)

C13_TwoAgainstTwo ==
    /\ cmd = "diff"
    /\ pc = "Done"
    /\ remote = << StoredItem, RecodedItem >>
    /\ bulkList = << Item(<<"https://example.test", "/", "k">>,
                          <<"https://example.test", "/", "b">>, 307),
                     Item(<<"https://example.test", "/", "c">>,
                          <<"https://other.example", "/", "x">>, 301) >>
    /\ addedRules = << bulkList[1] >>
    /\ removedRules = << RecodedItem >>

\* the calls that change the remote list
WritingOps == {"emptyBulkList", "uploadBulkList", "setListDescription"}

\* a step that leaves the remote list alone
ReadOnlyStep ==
    /\ remote' = remote
    /\ \A k \in 1..Len(calls') : calls'[k].op \notin WritingOps

(* C14: no step of a status, list or diff run changes the remote list or
   issues an emptyBulkList, uploadBulkList or setListDescription call, so the
   remote list is after the run what it was before it. *)
C14_ReadOnlyCommands ==
    [][(cmd \in {"status", "list", "diff"}) => ReadOnlyStep]_vars

C14_DiffEndedListUntouched ==
    /\ cmd = "diff"
    /\ pc = "Done"
    /\ removedRules # <<>>
    /\ addedRules # <<>>
    /\ remote = << StaleItem, LiveItem, StaleItem >>
    /\ calls = << Call("fetchRedirectRows", <<>>), Call("getBulkListContents", <<>>) >>

\* uploadBatch wrote that it awaits a bulk operation: the answer of
\* uploadBulkList carried a bulkOperationsId
Polled == Len(batchLog) >= 2 /\ batchLog[2][1] = "Awaiting confirmation on bulk operation."

\* the last call made for a batch, once the batch is recorded
LastBatchCall == IF pc = "Uploading" THEN Len(calls) ELSE Len(calls) - 1

(* C15: while the status of a batch's bulk operation is awaited the batch has
   no result yet; a batch whose upload answer carried a bulkOperationsId is
   recorded with what getBulkOpsStatus answered, whatever the answer's own
   success flag was; a batch whose answer carried none is recorded, with no
   getBulkOpsStatus call made for it, with the answer's success flag, and as
   failed when the flag is absent. *)
C15_BatchOutcomeIsFinalStatus ==
    (cmd = "publish" /\ i >= 1) =>
        /\ pc = "AwaitingUpload" => Len(results) = i - 1
        /\ pc = "AwaitingConfirmation" =>
              /\ Len(results) = i - 1
              /\ Polled
              /\ Len(batchLog) = 2
              /\ calls[Len(calls)].op = "getBulkOpsStatus"
              /\ Len(calls) \in inflight
        /\ pc \in {"Uploading", "Describing", "Done"} =>
              /\ Len(results) = i
              /\ Polled =>
                    /\ Len(batchLog) = 3
                    /\ calls[LastBatchCall].op = "getBulkOpsStatus"
                    /\ calls[LastBatchCall - 1].op = "uploadBulkList"
                    /\ LastBatchCall \notin inflight
                    /\ results[i] = (batchLog[3] = << "Batch", ToString(i), "accepted." >>)
              /\ ~Polled =>
                    /\ Len(batchLog) = 2
                    /\ calls[LastBatchCall].op = "uploadBulkList"
                    /\ results[i] = (batchLog[1] = << "Success?", "TRUE" >>)

C15_PolledStatusOverridesFlag ==
    /\ cmd = "publish"
    /\ pc = "Uploading"
    /\ i = 2
    /\ results = << FALSE, TRUE >>
    /\ batchLog = << << "Success?", "FALSE" >>,
                     << "Awaiting confirmation on bulk operation.", "op" >>,
                     << "Batch", "2", "accepted." >> >>

\* the places in calls of the calls of op
CallsOf(op) == {k \in 1..Len(calls) : calls[k].op = op}

(* C16: a publish run calls emptyBulkList exactly once, right after it has
   the rows; the call has resolved before the first uploadBulkList call is
   made, and no emptyBulkList call comes after an uploadBulkList call; the
   run is in Truncating, then in Uploading, AwaitingUpload and
   AwaitingConfirmation, then in Describing and Done. *)
C16_TruncateOnceBeforeUploads ==
    cmd = "publish" =>
        /\ CallsOf("emptyBulkList") = IF pc \in {"start", "fetching"} THEN {} ELSE {2}
        /\ pc = "Truncating" <=> 2 \in inflight
        /\ pc = "Truncating" => (truncOk = <<>> /\ CallsOf("uploadBulkList") = {})
        /\ pc \in {"Uploading", "AwaitingUpload", "AwaitingConfirmation",
                   "Describing", "Done"} => truncOk # <<>>
        /\ \A u \in CallsOf("uploadBulkList") :
              /\ 2 \notin inflight
              /\ \A t \in CallsOf("emptyBulkList") : t < u
        /\ pc \in {"start", "fetching", "Truncating", "Uploading", "AwaitingUpload",
                   "AwaitingConfirmation", "Describing", "Done"}

C16_ThirdUploadAfterOneTruncate ==
    /\ cmd = "publish"
    /\ pc = "AwaitingUpload"
    /\ i = 3
    /\ CallsOf("emptyBulkList") = {2}
    /\ Cardinality(CallsOf("uploadBulkList")) = 3
    /\ inflight = {Len(calls)}

\* setListDescription is called at most once, as the last call of the run,
\* when every batch has been uploaded and has its result
DescriptionComesLast ==
    cmd = "publish" =>
        /\ Cardinality(CallsOf("setListDescription")) <= 1
        /\ (pc \in {"Describing", "Done"}) <=> (CallsOf("setListDescription") # {})
        /\ \A d \in CallsOf("setListDescription") :
              /\ d = Len(calls)
              /\ \A u \in CallsOf("uploadBulkList") : u < d
              /\ Cardinality(CallsOf("uploadBulkList")) = (Len(bulkList) + 999) \div 1000
              /\ Len(results) = Cardinality(CallsOf("uploadBulkList"))
              /\ n >= Len(bulkList)

\* the answer of setListDescription, whatever it is, ends the run and leaves
\* the results and the remote list as they are
DescriptionStep ==
    (cmd = "publish" /\ pc = "Describing") =>
        /\ pc' = "Done"
        /\ results' = results
        /\ remote' = remote
        /\ calls' = calls

(* C17: a publish run calls setListDescription at most once, after the loop:
   every batch has then been uploaded and has its result, and no upload
   follows the call; whether the call succeeds or fails, the run ends in
   Done with the batch results it had. *)
C17_DescriptionLastAndHarmless ==
    []DescriptionComesLast /\ [][DescriptionStep]_vars

C17_DescriptionFailedRunDone ==
    /\ cmd = "publish"
    /\ pc = "Done"
    /\ results = << TRUE, FALSE, TRUE >>
    /\ log[Len(log)] = << "Batch", "3", "complete" >>
    /\ CallsOf("setListDescription") = {Len(calls)}

\* truncate succeeded and so did every batch
AllSucceeded(truncated, batches) ==
    /\ truncated = << TRUE >>
    /\ \A k \in 1..Len(batches) : batches[k]

(* C18: when a publish run has ended with truncate and every batch
   succeeded, the remote list holds the items made from the sheet, in their
   order, and nothing else; and a diff run made right after it on the same
   rows finds no rule to add and no rule to remove. *)
C18_PublishThenDiffIsEmpty ==
    /\ (cmd = "publish" /\ pc = "Done" /\ AllSucceeded(truncOk, results)) =>
          /\ remote = bulkList
          /\ PlacesNotIn(remote, bulkList) = {}
          /\ PlacesNotIn(bulkList, remote) = {}
    /\ (/\ previous # <<>>
        /\ AllSucceeded(previous[1].truncOk, previous[1].results)
        /\ cmd = "diff"
        /\ pc = "Done") =>
          /\ remote = bulkList
          /\ addedRules = <<>>
          /\ removedRules = <<>>

C18_DiffAfterFullPublish ==
    /\ previous # <<>>
    /\ AllSucceeded(previous[1].truncOk, previous[1].results)
    /\ Len(previous[1].results) = 1
    /\ cmd = "diff"
    /\ pc = "Done"
    /\ Len(bulkList) = 23
    /\ addedRules = <<>>
    /\ removedRules = <<>>

\* a publish run that has ended and whose list, made from the sheet, is empty
EmptyPublishEnded == cmd = "publish" /\ pc = "Done" /\ bulkList = <<>>

\* such a run has called emptyBulkList once, uploadBulkList never and
\* setListDescription once
EmptyPublishCalls ==
    /\ CallsOf("emptyBulkList") = {2}
    /\ CallsOf("uploadBulkList") = {}
    /\ CallsOf("setListDescription") = {3}
    /\ Len(calls) = 3
    /\ results = <<>>

(* C19 as claimed: a publish run whose list is empty (no rows, or every row
   rejected) calls emptyBulkList, makes no upload call, still calls
   setListDescription, and leaves the remote list empty. *)
C19_EmptyPublishLeavesListEmpty ==
    EmptyPublishEnded => (EmptyPublishCalls /\ remote = <<>>)

\* in a publish run of a sheet that gives no list item, the remote list
\* changes only by being emptied by a succeeded emptyBulkList
EmptyPublishStep ==
    (cmd = "publish" /\ processRows(inputRows) = <<>> /\ remote' # remote) =>
        (pc = "Truncating" /\ truncOk' = << TRUE >> /\ remote' = <<>>)

\* C19 as amended, of the run once it has ended
EmptyPublishOutcome ==
    EmptyPublishEnded =>
        /\ EmptyPublishCalls
        /\ truncOk = << TRUE >> => remote = <<>>
        /\ truncOk \in { << TRUE >>, << FALSE >> }

(* C19, amended: a publish run whose list is empty (no rows, or every row
   rejected) calls emptyBulkList, makes no upload call and still calls
   setListDescription; it leaves the remote list empty when emptyBulkList
   succeeded, and as it was when emptyBulkList failed. *)
C19_EmptyPublishTruncatesAndDescribes ==
    []EmptyPublishOutcome /\ [][EmptyPublishStep]_vars

C19_AllRowsRejectedListEmptied ==
    /\ EmptyPublishEnded
    /\ Len(inputRows) = 2
    /\ truncOk = << TRUE >>
    /\ remote = <<>>
    /\ calls = << Call("fetchRedirectRows", <<>>), Call("emptyBulkList", <<>>),
                  Call("setListDescription", << "Updated by Directomatic" >>) >>

\* the places of two different items of the list made from the sheet
ItemPairs == {p \in (1..Len(bulkList)) \X (1..Len(bulkList)) : p[1] < p[2]}

(* C20 as claimed: the list items made from one accepted record are pairwise
   different under ruleEquals and no two of them have the same source_url,
   whatever the record, localized records with a full URL as source
   included. *)
C20_ItemsOfARecordDistinct ==
    (cmd = "diff" /\ Processed /\ Len(redirectsList) = 1) =>
        \A p \in ItemPairs :
            /\ ~ruleEquals(bulkList[p[1]], bulkList[p[2]])
            /\ bulkList[p[1]].redirect.source_url # bulkList[p[2]].redirect.source_url

(* C20, amended: the list items made from one accepted record whose source
   starts with "/" are pairwise different under ruleEquals and no two of
   them have the same source_url; the items of a record whose source is a
   full URL all have that URL as source_url (22 items when the record is
   localized), and they are pairwise different under ruleEquals exactly when
   the destination starts with "/". *)
C20_ItemsDistinctForRelativeSource ==
    (cmd = "diff" /\ Processed /\ Len(redirectsList) = 1) =>
        LET r == redirectsList[1]
        IN  /\ Len(bulkList) = IF r.localized THEN 22 ELSE 1
            /\ IsRelative(r.source) =>
                  \A p \in ItemPairs :
                      /\ ~ruleEquals(bulkList[p[1]], bulkList[p[2]])
                      /\ bulkList[p[1]].redirect.source_url #
                            bulkList[p[2]].redirect.source_url
            /\ IsAbsolute(r.source) =>
                  /\ \A j \in 1..Len(bulkList) :
                        bulkList[j].redirect.source_url = r.source
                  /\ \A p \in ItemPairs :
                        ruleEquals(bulkList[p[1]], bulkList[p[2]])
                            <=> ~IsRelative(r.destination)

C20_AbsoluteSourceRepeated ==
    /\ cmd = "diff"
    /\ pc = "Done"
    /\ Len(redirectsList) = 1
    /\ redirectsList[1].localized
    /\ redirectsList[1].source = << "https://other.example", "/", "x" >>
    /\ redirectsList[1].destination = << "https://example.test", "/", "b" >>
    /\ Len(bulkList) = 22
    /\ bulkList[1] = bulkList[22]

=============================================================================
